---- MODULE Spec2Model ----
(***************************************************************************)
(* Expense reimbursement service: the Express router of routes/expenses.js *)
(* with the middleware of middleware/auth.js over the Expense collection   *)
(* of models/Expense.js.  One action per HTTP request; an action runs the  *)
(* route's whole middleware chain and handler against the store.  A second *)
(* specification, SpecConc, runs two status reviews of one expense with    *)
(* the handler's awaits as the points where the other handler may step.    *)
(***************************************************************************)
EXTENDS Integers, Sequences, FiniteSets

\* ------------------------------------------------------------------ bounds
MaxExpenses == 2        \* documents the collection may hold
MaxClock == 1           \* last millisecond of the clock
RandRange == 1          \* distinct values of the random filename suffix

\* --------------------------------------------------------------- constants
TitleMax == 100
DescriptionMax == 500
ReviewCommentsMax == 500
AmountMinCents == 1              \* 0.01, in hundredths
FileSizeLimit == 5 * 1024 * 1024 \* bytes

Undefined == "undefined"         \* a JavaScript undefined / absent field
NoDate == 0 - 1                  \* an absent Date

Roles == {"Employee", "Manager", "Finance"}
Categories == {"Travel", "Meals", "Office Supplies", "Transportation",
               "Accommodation", "Entertainment", "Training", "Software",
               "Equipment", "Other"}
Currencies == {"USD", "EUR", "GBP", "INR", "CAD", "AUD"}
StatusEnum == {"Pending", "Approved", "Rejected", "Under Review"}
ReviewStatuses == {"Approved", "Rejected", "Under Review"}
AllowedMimetypes == {"application/pdf", "image/jpeg", "image/jpg", "image/png"}

\* ------------------------------------------------------------------ strings
\* A string is its trimmed content (text, len characters) with pad characters
\* of surrounding whitespace; def = FALSE is undefined.
Str(text, len, pad) == [def |-> TRUE, text |-> text, len |-> len, pad |-> pad]
NoStr == [def |-> FALSE, text |-> "", len |-> 0, pad |-> 0]
EmptyStr == Str("", 0, 0)
\* express-validator turns undefined into '' before sanitizing
toStr(s) == IF s.def THEN s ELSE EmptyStr
Trim(s) == [s EXCEPT !.pad = 0]
Length(s) == s.len + s.pad
Truthy(s) == s.def /\ Length(s) > 0

\* -------------------------------------------------------------------- users
\* The User collection; this router only reads it.
UserDB ==
  [u \in {"e1", "e2", "m1", "f1", "x1"} |->
     CASE u = "e1" -> [role |-> "Employee", isActive |-> TRUE]
       [] u = "e2" -> [role |-> "Employee", isActive |-> TRUE]
       [] u = "m1" -> [role |-> "Manager", isActive |-> TRUE]
       [] u = "f1" -> [role |-> "Finance", isActive |-> TRUE]
       [] u = "x1" -> [role |-> "Manager", isActive |-> FALSE]]
UserIds == DOMAIN UserDB

\* Authorization headers a request may carry.  sig is the token's signature
\* check against JWT_SECRET ("none": no token after the scheme); id is the
\* identifier the token carries ("g1" names no user).
Hdr(present, scheme, sig, id) ==
  [present |-> present, scheme |-> scheme, sig |-> sig, id |-> id]
Headers ==
  {Hdr(FALSE, "", "none", Undefined),
   Hdr(TRUE, "Basic", "good", "m1"),
   Hdr(TRUE, "Bearer", "none", Undefined),
   Hdr(TRUE, "Bearer", "bad", "m1")}
  \cup {Hdr(TRUE, "Bearer", "good", u) : u \in UserIds \cup {"g1"}}

\* -------------------------------------------------------------------- state
VARIABLES expenses, files, now, last, reviews
vars == <<expenses, files, now, last, reviews>>

\* expenses: the Expense collection in insertion order; a document's id is
\*           its index.
\* files:    the stored filenames under uploads/invoices.
\* now:      the clock (Date.now()).
\* last:     the request being answered: the request itself, the identity
\*           protect resolved, what each middleware of the chain did, and the
\*           responses sent; Idle between requests.
\* reviews:  the status reviews in flight under SpecConc, each with its
\*           request, its position in the handler, the document it loaded
\*           and the paths it modified; NoReviews under Spec.

Ids == 1..MaxExpenses
FindById(coll, id) == IF id \in 1..Len(coll) THEN coll[id] ELSE Undefined
Exists(coll, id) == id \in 1..Len(coll)

\* ---------------------------------------------------------------- responses
Resp(code, msg) == [code |-> code, msg |-> msg, errors |-> {}, body |-> <<>>]
RespErrors(errs) == [code |-> 400, msg |-> "errors", errors |-> errs, body |-> <<>>]
RespBody(code, body) == [code |-> code, msg |-> "json", errors |-> {}, body |-> body]

\* req.file as multer leaves it; def = FALSE when no file part was sent.
NoFile ==
  [def |-> FALSE, filename |-> [t |-> 0, r |-> 0], originalname |-> "",
   path |-> [dir |-> "", name |-> [t |-> 0, r |-> 0]], size |-> 0,
   mimetype |-> ""]

\* The request context threaded through a route's middleware: req.user,
\* req.file, the sanitized req.body, the validation errors, the middleware run
\* so far, the responses sent, whether the current middleware called next(),
\* and the store as the chain sees and changes it.
Ctx0(req, coll, disk) ==
  [user |-> Undefined, file |-> NoFile, body |-> req.body, errors |-> {},
   steps |-> <<>>, resp |-> <<>>, next |-> FALSE,
   expenses |-> coll, files |-> disk]

Send(c, r) == [c EXCEPT !.resp = Append(@, r)]
CallNext(c) == [c EXCEPT !.next = TRUE]

\* ---------------------------------------------------------- middleware/auth
JwtVerifies(h) == h.sig = "good"

\* protect without the isActive check.
protectKeepsDeactivated(req, c) ==
  LET h == req.hdr
  IN IF h.present /\ h.scheme = "Bearer"
     THEN IF ~JwtVerifies(h)
          THEN Send(c, Resp(401, "Not authorized, token failed"))
          ELSE IF h.id \notin UserIds
               THEN Send(c, Resp(401, "Not authorized, user not found"))
               ELSE CallNext([c EXCEPT !.user = h.id])
     ELSE Send(c, Resp(401, "Not authorized, no token"))

protect(req, c) ==
  LET h == req.hdr
      tokenSet == h.sig # "none"
  IN IF h.present /\ h.scheme = "Bearer"
     THEN IF ~JwtVerifies(h)
          THEN Send(c, Resp(401, "Not authorized, token failed"))
          ELSE IF h.id \notin UserIds
               THEN Send(c, Resp(401, "Not authorized, user not found"))
               ELSE IF ~UserDB[h.id].isActive
                    THEN Send([c EXCEPT !.user = h.id],
                              Resp(401, "Not authorized, account is deactivated"))
                    ELSE LET d == CallNext([c EXCEPT !.user = h.id])
                         IN IF ~tokenSet
                            THEN Send(d, Resp(401, "Not authorized, no token"))
                            ELSE d
     ELSE Send(c, Resp(401, "Not authorized, no token"))

\* authorize without the roles.includes test.
authorizeAnyRole(roles, req, c) ==
  IF c.user = Undefined
  THEN Send(c, Resp(401, "Not authorized"))
  ELSE CallNext(c)

authorize(roles, req, c) ==
  IF c.user = Undefined
  THEN Send(c, Resp(401, "Not authorized"))
  ELSE IF UserDB[c.user].role \notin roles
       THEN Send(c, Resp(403, "User role is not authorized to access this resource"))
       ELSE CallNext(c)

\* canAccessExpense without the submittedBy comparison.
canAccessExpenseAnyOwner(req, c) ==
  LET userRole == UserDB[c.user].role
  IN IF userRole = "Manager" \/ userRole = "Finance"
     THEN CallNext(c)
     ELSE IF ~Exists(c.expenses, req.id)
          THEN Send(c, Resp(404, "Expense not found"))
          ELSE CallNext(c)

canAccessExpense(req, c) ==
  LET userRole == UserDB[c.user].role
      expense == FindById(c.expenses, req.id)
  IN IF userRole = "Manager" \/ userRole = "Finance"
     THEN CallNext(c)
     ELSE IF ~Exists(c.expenses, req.id)
          THEN Send(c, Resp(404, "Expense not found"))
          ELSE IF expense.submittedBy # c.user
               THEN Send(c, Resp(403, "Not authorized to access this expense"))
               ELSE CallNext(c)

\* ------------------------------------------------------------ file upload
fileFilter(file) == file.mimetype \in AllowedMimetypes

\* storage.filename: fieldname-<Date.now()>-<random><ext>
StorageFilename(t, r) == [t |-> t, r |-> r]
UploadPath(name) == [dir |-> "uploads/invoices", name |-> name]

\* upload.single('invoice'): multer asks fileFilter, then streams the part to
\* disk under the generated name; a part over the size limit is removed again
\* and, like a refused type, ends the request in Express's error handler.
uploadSingle(req, c) ==
  LET f == req.file
      name == StorageFilename(now, req.rand)
  IN IF ~f.def
     THEN CallNext(c)
     ELSE IF ~fileFilter(f)
          THEN Send(c, Resp(500, "Only PDF, JPG, JPEG, and PNG files are allowed"))
          ELSE IF f.size > FileSizeLimit
               THEN Send(c, Resp(500, "File too large"))
               ELSE CallNext([c EXCEPT
                      !.files = @ \cup {name},
                      !.file = [def |-> TRUE, filename |-> name,
                                originalname |-> f.originalname,
                                path |-> UploadPath(name), size |-> f.size,
                                mimetype |-> f.mimetype]])

\* -------------------------------------------------------- POST validators
\* _.get(req.body, 'vendor.name'): the name of a structured vendor, or the
\* flat form field 'vendor.name' beside a serialized vendor.
VendorNameField(v) == IF v.form = "absent" THEN NoStr ELSE v.name

submitErrors(b) ==
  {p \in {"title", "category", "amount", "description", "vendor.name", "expenseDate"} :
     CASE p = "title" ->
            ~(Trim(toStr(b.title)).len >= 1 /\ Trim(toStr(b.title)).len <= TitleMax)
       [] p = "category" -> b.category \notin Categories
       [] p = "amount" -> ~(b.amount.numeric /\ b.amount.cents >= AmountMinCents)
       [] p = "description" ->
            ~(Trim(toStr(b.description)).len >= 1
              /\ Trim(toStr(b.description)).len <= DescriptionMax)
       [] p = "vendor.name" -> Trim(toStr(VendorNameField(b.vendor))).len = 0
       [] p = "expenseDate" -> ~b.expenseDate.iso}

\* The validation chain of POST /: each validator records its error and calls
\* next(); the trim() sanitizers write the trimmed value back into req.body.
submitValidators(req, c) ==
  LET b == c.body
      sanitized == [b EXCEPT !.title = Trim(toStr(@)),
                             !.description = Trim(toStr(@)),
                             !.vendor = IF @.form = "absent" THEN @
                                        ELSE [@ EXCEPT !.name = Trim(toStr(@))]]
  IN CallNext([c EXCEPT !.errors = submitErrors(b), !.body = sanitized])

\* ------------------------------------------------------------ models/Expense
\* Mongoose's validation of a new document against expenseSchema (required,
\* enum, min and maxlength after the schema's trim).
SchemaValid(d) ==
  /\ d.title.def /\ d.title.len >= 1 /\ d.title.len <= TitleMax
  /\ d.category \in Categories
  /\ d.amount >= AmountMinCents
  /\ d.currency \in Currencies
  /\ d.description.def /\ d.description.len >= 1 /\ d.description.len <= DescriptionMax
  /\ d.vendor.name.def /\ d.vendor.name.len >= 1
  /\ d.invoice.originalName # "" /\ d.invoice.mimetype # ""
  /\ d.submittedBy # Undefined
  /\ d.status \in StatusEnum
  /\ d.expenseDate # NoDate

\* new Expense(fields): the schema's defaults (status, submittedDate), its
\* trims, and the createdAt/updatedAt of timestamps: true.
NewExpense(fields, t) ==
  [title |-> Trim(fields.title),
   category |-> fields.category,
   amount |-> fields.amount,
   currency |-> fields.currency,
   description |-> Trim(fields.description),
   vendor |-> [name |-> Trim(fields.vendor.name)],
   invoice |-> fields.invoice,
   submittedBy |-> fields.submittedBy,
   status |-> "Pending",
   reviewedBy |-> Undefined,
   reviewComments |-> NoStr,
   submittedDate |-> t,
   reviewedDate |-> NoDate,
   expenseDate |-> fields.expenseDate,
   createdAt |-> t,
   updatedAt |-> t]

\* ------------------------------------------------------------- POST handler
\* vendor as the handler decodes it: a serialized vendor goes through
\* JSON.parse, a structured one is taken as sanitized.
VendorData(v) ==
  IF v.form = "string" THEN [name |-> v.parsedName] ELSE [name |-> v.name]

\* The handler passing req.body itself on to Expense.create.
submitHandlerSpreadsBody(req, c) ==
  LET b == c.body
      fields == [title |-> b.title,
                 category |-> b.category,
                 amount |-> b.amount.cents,
                 currency |-> IF b.currency = Undefined THEN "USD" ELSE b.currency,
                 description |-> b.description,
                 vendor |-> VendorData(b.vendor),
                 invoice |-> [filename |-> c.file.filename,
                             originalName |-> c.file.originalname,
                             path |-> c.file.path,
                             size |-> c.file.size,
                             mimetype |-> c.file.mimetype],
                 submittedBy |-> c.user,
                 expenseDate |-> b.expenseDate.t]
      doc == [NewExpense(fields, now) EXCEPT
                !.status = IF b.status = Undefined THEN @ ELSE b.status,
                !.reviewedBy = b.reviewedBy]
  IN IF c.errors # {}
     THEN Send(c, RespErrors(c.errors))
     ELSE IF ~c.file.def
          THEN Send(c, Resp(400, "Invoice file is required"))
          ELSE IF b.vendor.form = "string" /\ ~b.vendor.jsonOk
               THEN Send(c, Resp(400, "Invalid vendor data format"))
               ELSE IF ~SchemaValid(doc)
                    THEN Send(c, Resp(500, "Server error during expense submission"))
                    ELSE Send([c EXCEPT !.expenses = Append(@, doc)],
                              RespBody(201, <<Len(c.expenses) + 1>>))

submitHandler(req, c) ==
  LET b == c.body
      fields == [title |-> b.title,
                 category |-> b.category,
                 amount |-> b.amount.cents,
                 currency |-> IF b.currency = Undefined THEN "USD" ELSE b.currency,
                 description |-> b.description,
                 vendor |-> VendorData(b.vendor),
                 invoice |-> [filename |-> c.file.filename,
                             originalName |-> c.file.originalname,
                             path |-> c.file.path,
                             size |-> c.file.size,
                             mimetype |-> c.file.mimetype],
                 submittedBy |-> c.user,
                 expenseDate |-> b.expenseDate.t]
      doc == NewExpense(fields, now)
  IN IF c.errors # {}
     THEN Send(c, RespErrors(c.errors))
     ELSE IF ~c.file.def
          THEN Send(c, Resp(400, "Invoice file is required"))
          ELSE IF b.vendor.form = "string" /\ ~b.vendor.jsonOk
               THEN Send(c, Resp(400, "Invalid vendor data format"))
               ELSE IF ~SchemaValid(doc)
                    THEN Send(c, Resp(500, "Server error during expense submission"))
                    ELSE Send([c EXCEPT !.expenses = Append(@, doc)],
                              RespBody(201, <<Len(c.expenses) + 1>>))

\* -------------------------------------------------------------- GET handlers
\* The ids of the documents matching pred, newest submittedDate first; equal
\* dates keep insertion order.
RECURSIVE SortedIds(_, _)
SortedIds(coll, idset) ==
  IF idset = {} THEN <<>>
  ELSE LET best == CHOOSE i \in idset :
                     \A j \in idset :
                        \/ coll[i].submittedDate > coll[j].submittedDate
                        \/ coll[i].submittedDate = coll[j].submittedDate /\ i <= j
       IN <<best>> \o SortedIds(coll, idset \ {best})

\* .limit(n).skip(k) of a sorted result
Page(seq, skip, limit) ==
  SubSeq(seq, skip + 1, IF skip + limit < Len(seq) THEN skip + limit ELSE Len(seq))

myHandler(req, c) ==
  LET mine == {i \in 1..Len(c.expenses) : c.expenses[i].submittedBy = c.user}
  IN Send(c, RespBody(200, SortedIds(c.expenses, mine)))

listHandler(req, c) ==
  LET q == req.query
      match == {i \in 1..Len(c.expenses) :
                  q.status = Undefined \/ c.expenses[i].status = q.status}
  IN Send(c, RespBody(200, Page(SortedIds(c.expenses, match),
                                (q.page - 1) * q.limit, q.limit)))

getHandler(req, c) ==
  IF ~Exists(c.expenses, req.id)
  THEN Send(c, Resp(404, "Expense not found"))
  ELSE Send(c, RespBody(200, <<req.id>>))

invoiceHandler(req, c) ==
  IF ~Exists(c.expenses, req.id)
  THEN Send(c, Resp(404, "Expense not found"))
  ELSE IF c.expenses[req.id].invoice.path.name \notin c.files
       THEN Send(c, Resp(404, "Invoice file not found"))
       ELSE Send(c, RespBody(200, <<req.id>>))

\* ------------------------------------------------------------- PUT /:id/status
\* The status validator with Pending in its list.
statusErrorsAdmitsPending(b) ==
  {p \in {"status", "reviewComments"} :
     CASE p = "status" -> b.status \notin ReviewStatuses \cup {"Pending"}
       [] p = "reviewComments" ->
            b.reviewComments.def /\ Trim(b.reviewComments).len > ReviewCommentsMax}

statusErrors(b) ==
  {p \in {"status", "reviewComments"} :
     CASE p = "status" -> b.status \notin ReviewStatuses
       [] p = "reviewComments" ->
            b.reviewComments.def /\ Trim(b.reviewComments).len > ReviewCommentsMax}

\* optional() leaves an undefined reviewComments alone; otherwise trim() writes
\* the trimmed value back into req.body.
statusValidators(req, c) ==
  LET b == c.body
      sanitized == [b EXCEPT !.reviewComments = IF @.def THEN Trim(@) ELSE @]
  IN CallNext([c EXCEPT !.errors = statusErrors(b), !.body = sanitized])

\* The handler assigning submittedBy where it means reviewedBy.
ReviewedExpenseOverwritesSubmitter(expense, status, reviewComments, user, t) ==
  LET e1 == [expense EXCEPT !.status = status,
                            !.submittedBy = user,
                            !.reviewedDate = t,
                            !.updatedAt = t]
  IN IF Truthy(reviewComments)
     THEN [e1 EXCEPT !.reviewComments = Trim(reviewComments)]
     ELSE e1

\* The handler assigning reviewComments whether or not any were sent.
ReviewedExpenseAlwaysSetsComments(expense, status, reviewComments, user, t) ==
  [expense EXCEPT !.status = status,
                  !.reviewedBy = user,
                  !.reviewedDate = t,
                  !.updatedAt = t,
                  !.reviewComments = Trim(reviewComments)]

\* The assignments of the handler on the loaded document, then save().
ReviewedExpense(expense, status, reviewComments, user, t) ==
  LET e1 == [expense EXCEPT !.status = status,
                            !.reviewedBy = user,
                            !.reviewedDate = t,
                            !.updatedAt = t]
  IN IF Truthy(reviewComments)
     THEN [e1 EXCEPT !.reviewComments = Trim(reviewComments)]
     ELSE e1

\* The handler without its validationResult check.
statusHandlerIgnoresErrors(req, c) ==
  LET b == c.body
      expense == ReviewedExpense(c.expenses[req.id], b.status, b.reviewComments,
                                 c.user, now)
  IN IF ~Exists(c.expenses, req.id)
     THEN Send(c, Resp(404, "Expense not found"))
     ELSE IF ~SchemaValid(expense)
          THEN Send(c, Resp(500, "Server error"))
          ELSE Send([c EXCEPT !.expenses[req.id] = expense],
                    RespBody(200, <<req.id>>))

statusHandler(req, c) ==
  LET b == c.body
      expense == ReviewedExpense(c.expenses[req.id], b.status, b.reviewComments,
                                 c.user, now)
  IN IF c.errors # {}
     THEN Send(c, RespErrors(c.errors))
     ELSE IF ~Exists(c.expenses, req.id)
          THEN Send(c, Resp(404, "Expense not found"))
          ELSE IF ~SchemaValid(expense)
               THEN Send(c, Resp(500, "Server error"))
               ELSE Send([c EXCEPT !.expenses[req.id] = expense],
                         RespBody(200, <<req.id>>))

\* ------------------------------------------------------------------- routes
\* The middleware chain each route registers, in order.
Route(op) ==
  CASE op = "submit" -> <<"protect", "authorize", "upload", "validators", "handler">>
    [] op = "my" -> <<"protect", "authorize", "handler">>
    [] op = "list" -> <<"protect", "authorize", "handler">>
    [] op = "get" -> <<"protect", "canAccessExpense", "handler">>
    [] op = "status" -> <<"protect", "authorize", "validators", "handler">>
    [] op = "invoice" -> <<"protect", "canAccessExpense", "handler">>

\* The roles each route passes to authorize(...).
RouteRoles(op) ==
  CASE op = "submit" -> {"Employee"}
    [] op = "my" -> {"Employee"}
    [] op = "list" -> {"Manager", "Finance"}
    [] op = "status" -> {"Manager", "Finance"}
    [] OTHER -> {}

Handler(req, c) ==
  CASE req.op = "submit" -> submitHandler(req, c)
    [] req.op = "my" -> myHandler(req, c)
    [] req.op = "list" -> listHandler(req, c)
    [] req.op = "get" -> getHandler(req, c)
    [] req.op = "status" -> statusHandler(req, c)
    [] req.op = "invoice" -> invoiceHandler(req, c)

Middleware(name, req, c) ==
  CASE name = "protect" -> protect(req, c)
    [] name = "authorize" -> authorize(RouteRoles(req.op), req, c)
    [] name = "canAccessExpense" -> canAccessExpense(req, c)
    [] name = "upload" -> uploadSingle(req, c)
    [] name = "validators" ->
         IF req.op = "submit" THEN submitValidators(req, c) ELSE statusValidators(req, c)
    [] name = "handler" -> Handler(req, c)

\* Express runs the chain in order; the next middleware runs only when the
\* current one called next().
RECURSIVE Run(_, _, _)
Run(chain, req, c) ==
  IF chain = <<>> THEN c
  ELSE LET d == Middleware(Head(chain), req, [c EXCEPT !.next = FALSE])
           e == [d EXCEPT !.steps = Append(@, [mw |-> Head(chain),
                                               sent |-> Len(d.resp) - Len(c.resp),
                                               next |-> d.next])]
       IN IF d.next THEN Run(Tail(chain), req, e) ELSE e

Serve(req) == Run(Route(req.op), req, Ctx0(req, expenses, files))

Idle == [req |-> [op |-> "none"], user |-> Undefined, steps |-> <<>>, resp |-> <<>>]
Idling == last.req.op = "none"

\* One request, start to end: the chain runs against the store and leaves its
\* response.
Request(req) ==
  \E c \in {Serve(req)} :
     /\ Len(c.expenses) <= MaxExpenses
     /\ expenses' = c.expenses
     /\ files' = c.files
     /\ last' = [req |-> req, user |-> c.user, steps |-> c.steps, resp |-> c.resp]
     /\ UNCHANGED <<now, reviews>>

\* ------------------------------------------------------------------- inputs
GoodBody ==
  [title |-> Str("t", TitleMax, 2), category |-> "Travel",
   amount |-> [numeric |-> TRUE, cents |-> AmountMinCents], currency |-> Undefined,
   description |-> Str("d", DescriptionMax, 1),
   vendor |-> [form |-> "object", name |-> Str("v", 4, 0), jsonOk |-> TRUE,
               parsedName |-> NoStr],
   expenseDate |-> [iso |-> TRUE, t |-> 0],
   status |-> Undefined, reviewedBy |-> Undefined]

\* The same submission with its vendor serialized, beside the flat
\* 'vendor.name' form field the validator reads.
SerializedBody ==
  [GoodBody EXCEPT !.vendor = [form |-> "string", name |-> Str("v", 4, 1),
                               jsonOk |-> TRUE, parsedName |-> Str("v", 4, 0)]]

SubmitBodies ==
  {GoodBody, SerializedBody,
   [GoodBody EXCEPT !.status = "Approved", !.reviewedBy = "m1"],
   [GoodBody EXCEPT !.title = NoStr],
   [GoodBody EXCEPT !.title = Str("", 0, 3)],
   [GoodBody EXCEPT !.title = Str("t", TitleMax + 1, 0)],
   [GoodBody EXCEPT !.category = "Bogus"],
   [GoodBody EXCEPT !.amount = [numeric |-> TRUE, cents |-> 0]],
   [GoodBody EXCEPT !.amount = [numeric |-> FALSE, cents |-> 0]],
   [GoodBody EXCEPT !.description = Str("d", DescriptionMax + 1, 0)],
   [GoodBody EXCEPT !.vendor.form = "absent"],
   [GoodBody EXCEPT !.vendor.name = Str("", 0, 1)],
   [SerializedBody EXCEPT !.vendor.name = NoStr],
   [SerializedBody EXCEPT !.vendor.jsonOk = FALSE],
   [SerializedBody EXCEPT !.vendor.parsedName = NoStr],
   [GoodBody EXCEPT !.expenseDate = [iso |-> FALSE, t |-> 0]],
   [GoodBody EXCEPT !.currency = "XYZ"],
   [GoodBody EXCEPT !.title = EmptyStr, !.category = "Bogus",
                    !.amount = [numeric |-> TRUE, cents |-> 0 - 5],
                    !.description = NoStr, !.vendor.form = "absent",
                    !.expenseDate = [iso |-> FALSE, t |-> 0]]}

FilePart(def, mimetype, size) ==
  [def |-> def, originalname |-> "receipt", mimetype |-> mimetype, size |-> size]
NoFilePart == FilePart(FALSE, "", 0)
AcceptedFile == FilePart(TRUE, "application/pdf", FileSizeLimit)
FileParts ==
  {NoFilePart, AcceptedFile,
   FilePart(TRUE, "application/pdf", FileSizeLimit + 1),
   FilePart(TRUE, "text/plain", 1)}

NoBody == [none |-> TRUE]
NoQuery == [status |-> Undefined, page |-> 1, limit |-> 10]
Req(op, hdr, id, body, file, rand, query) ==
  [op |-> op, hdr |-> hdr, id |-> id, body |-> body, file |-> file,
   rand |-> rand, query |-> query]

Bearer(u) == Hdr(TRUE, "Bearer", "good", u)
Submitters == {Bearer("e1"), Bearer("e2")}
Reviewers == {Bearer("m1"), Bearer("f1")}

\* Every body with an accepted file and every file with the good body from one
\* Employee, the valid bodies from the other; one submission from every other
\* caller.
SubmitRequests ==
  {Req("submit", Bearer("e1"), 0, b, AcceptedFile, r, NoQuery) :
     b \in SubmitBodies, r \in 0..(RandRange - 1)}
  \cup {Req("submit", Bearer("e1"), 0, GoodBody, f, 0, NoQuery) :
          f \in FileParts \ {AcceptedFile}}
  \cup {Req("submit", Bearer("e2"), 0, b, AcceptedFile, r, NoQuery) :
          b \in {GoodBody, [GoodBody EXCEPT !.category = "Bogus"]},
          r \in 0..(RandRange - 1)}
  \cup {Req("submit", h, 0, GoodBody, AcceptedFile, 0, NoQuery) :
          h \in Headers \ Submitters}

ReviewBody(st, cm) == [status |-> st, reviewComments |-> cm]
ReviewBodies ==
  {ReviewBody(st, cm) :
     st \in ReviewStatuses, cm \in {NoStr, Str("a", 2, 0), Str("b", 2, 1)}}
  \cup {ReviewBody("Approved", EmptyStr), ReviewBody("Rejected", Str("", 0, 2)),
        ReviewBody("Pending", Str("a", 2, 0)), ReviewBody("Bogus", NoStr),
        ReviewBody(Undefined, Str("b", 2, 1)),
        ReviewBody("Approved", Str("c", ReviewCommentsMax + 1, 0))}

\* Every review body on every id from each reviewer; one review from every
\* other caller.
StatusRequests ==
  {Req("status", h, id, b, NoFilePart, 0, NoQuery) :
     h \in Reviewers, id \in Ids, b \in ReviewBodies}
  \cup {Req("status", h, 1, ReviewBody("Approved", Str("a", 2, 0)), NoFilePart, 0,
            NoQuery) : h \in Headers \ Reviewers}

Queries ==
  {NoQuery,
   [status |-> Undefined, page |-> 2, limit |-> 1],
   [status |-> "Approved", page |-> 1, limit |-> 1]}

ListRequests ==
  {Req("list", h, 0, NoBody, NoFilePart, 0, q) : h \in Reviewers, q \in Queries}
  \cup {Req("list", h, 0, NoBody, NoFilePart, 0, NoQuery) : h \in Headers \ Reviewers}

MyRequests == {Req("my", h, 0, NoBody, NoFilePart, 0, NoQuery) : h \in Headers}
GetRequests ==
  {Req("get", h, id, NoBody, NoFilePart, 0, NoQuery) : h \in Headers, id \in Ids}
InvoiceRequests ==
  {Req("invoice", h, id, NoBody, NoFilePart, 0, NoQuery) : h \in Headers, id \in Ids}

\* ------------------------------------------------------------------ actions
Submit ==
  /\ Idling
  /\ \E req \in SubmitRequests : Request(req)

ListMy ==
  /\ Idling
  /\ \E req \in MyRequests : Request(req)

ListAll ==
  /\ Idling
  /\ \E req \in ListRequests : Request(req)

GetExpense ==
  /\ Idling
  /\ \E req \in GetRequests : Request(req)

UpdateStatus ==
  /\ Idling
  /\ \E req \in StatusRequests : Request(req)

DownloadInvoice ==
  /\ Idling
  /\ \E req \in InvoiceRequests : Request(req)

\* The response leaves the server and the request ends.
EndRequest ==
  /\ ~Idling
  /\ last' = Idle
  /\ UNCHANGED <<expenses, files, now, reviews>>

\* The clock advances between requests.
Tick ==
  /\ Idling
  /\ now < MaxClock
  /\ now' = now + 1
  /\ UNCHANGED <<expenses, files, last, reviews>>

\* No review is in flight: requests are served one at a time.
NoReviews == [before |-> <<>>, of |-> <<>>]

Init ==
  /\ expenses = <<>>
  /\ files = {}
  /\ now = 0
  /\ last = Idle
  /\ reviews = NoReviews

Next ==
  \/ Submit
  \/ ListMy
  \/ ListAll
  \/ GetExpense
  \/ UpdateStatus
  \/ DownloadInvoice
  \/ EndRequest
  \/ Tick

Spec == Init /\ [][Next]_vars

\* ------------------------------------------------------ concurrent reviews
\* Two PUT /:id/status requests in flight at once.  Node runs each handler up
\* to its next await, so the handler is four steps: the chain up to and
\* including findById; the assignments and the call of save(); the update
\* that save() sends reaching the store; the second findById and res.json.

\* A loaded Mongoose document: its values and the paths marked modified.
\* Assigning a path the value it already holds does not mark it.
DocSet(d, path, val) ==
  IF d.doc[path] = val
  THEN d
  ELSE [doc |-> [d.doc EXCEPT ![path] = val], modified |-> d.modified \cup {path}]

\* The assignments of the handler on the document it loaded.
AssignReview(loaded, status, reviewComments, user, t) ==
  LET d0 == [doc |-> loaded, modified |-> {}]
      d1 == DocSet(d0, "status", status)
      d2 == DocSet(d1, "reviewedBy", user)
      d3 == DocSet(d2, "reviewedDate", t)
  IN IF Truthy(reviewComments)
     THEN DocSet(d3, "reviewComments", Trim(reviewComments))
     ELSE d3

\* save() sends the modified paths, and updatedAt with them, as one update of
\* the stored document; with no path modified it sends nothing.
PutPath(stored, d, path) ==
  IF path \in d.modified THEN [stored EXCEPT ![path] = d.doc[path]] ELSE stored

SaveDelta(stored, d, t) ==
  IF d.modified = {}
  THEN stored
  ELSE LET s1 == PutPath(stored, d, "status")
           s2 == PutPath(s1, d, "reviewedBy")
           s3 == PutPath(s2, d, "reviewedDate")
           s4 == PutPath(s3, d, "reviewComments")
       IN [s4 EXCEPT !.updatedAt = t]

Procs == {1, 2}

\* A request that has arrived and not yet run.
Arrived(req) ==
  [req |-> req, pc |-> "arrived", user |-> Undefined, body |-> req.body,
   loaded |-> <<>>, modified |-> {}, at |-> 0, resp |-> <<>>]

\* The reviews that race: each reviewer with each status and comments on the
\* one expense, and one request each that validation, the role check and the
\* lookup turn away.
ConcBodies ==
  {ReviewBody(st, cm) :
     st \in ReviewStatuses, cm \in {NoStr, Str("a", 2, 0), Str("b", 2, 1)}}

ConcRequests ==
  {Req("status", h, 1, b, NoFilePart, 0, NoQuery) : h \in Reviewers, b \in ConcBodies}
  \cup {Req("status", Bearer("m1"), 1, ReviewBody("Pending", NoStr), NoFilePart, 0,
            NoQuery),
        Req("status", Bearer("e1"), 1, ReviewBody("Approved", NoStr), NoFilePart, 0,
            NoQuery),
        Req("status", Bearer("f1"), 2, ReviewBody("Approved", NoStr), NoFilePart, 0,
            NoQuery)}

\* protect, authorize, the validators, the validationResult check and
\* findById: the handler now holds the document as stored at this moment.
ReviewFind(p) ==
  /\ reviews.of[p].pc = "arrived"
  /\ \E c \in {Run(<<"protect", "authorize", "validators">>, reviews.of[p].req,
                   Ctx0(reviews.of[p].req, expenses, files))} :
       LET r == reviews.of[p]
           answered(resp) == [r EXCEPT !.pc = "done", !.user = c.user, !.resp = resp]
       IN reviews' =
            [reviews EXCEPT !.of[p] =
               IF ~c.next THEN answered(c.resp)
               ELSE IF c.errors # {} THEN answered(<<RespErrors(c.errors)>>)
               ELSE IF ~Exists(expenses, r.req.id)
                    THEN answered(<<Resp(404, "Expense not found")>>)
               ELSE [r EXCEPT !.pc = "loaded", !.user = c.user, !.body = c.body,
                              !.loaded = <<FindById(expenses, r.req.id)>>]]
  /\ UNCHANGED <<expenses, files, now, last>>

\* The assignments on the loaded document and the call of save().
ReviewAssign(p) ==
  /\ reviews.of[p].pc = "loaded"
  /\ LET r == reviews.of[p]
         d == AssignReview(r.loaded[1], r.body.status, r.body.reviewComments,
                           r.user, now)
     IN reviews' = [reviews EXCEPT !.of[p] =
                      [r EXCEPT !.pc = "saving", !.loaded = <<d.doc>>,
                                !.modified = d.modified, !.at = now]]
  /\ UNCHANGED <<expenses, files, now, last>>

\* The update of save() reaches the store.
ReviewSave(p) ==
  /\ reviews.of[p].pc = "saving"
  /\ LET r == reviews.of[p]
         d == [doc |-> r.loaded[1], modified |-> r.modified]
     IN IF SchemaValid(d.doc)
        THEN /\ expenses' = [expenses EXCEPT ![r.req.id] = SaveDelta(@, d, r.at)]
             /\ reviews' = [reviews EXCEPT !.of[p].pc = "saved"]
        ELSE /\ expenses' = expenses
             /\ reviews' = [reviews EXCEPT !.of[p].pc = "done",
                                           !.of[p].resp = <<Resp(500, "Server error")>>]
  /\ UNCHANGED <<files, now, last>>

\* The second findById and res.json.
ReviewRespond(p) ==
  /\ reviews.of[p].pc = "saved"
  /\ reviews' = [reviews EXCEPT !.of[p].pc = "done",
                                !.of[p].resp = <<RespBody(200, <<reviews.of[p].req.id>>)>>]
  /\ UNCHANGED <<expenses, files, now, last>>

\* The clock advances while handlers wait.
TickConc ==
  /\ now < MaxClock
  /\ now' = now + 1
  /\ UNCHANGED <<expenses, files, last, reviews>>

\* The store a served submission leaves, and after it a served review.
Submitted ==
  LET req == Req("submit", Bearer("e1"), 0, GoodBody, AcceptedFile, 0, NoQuery)
  IN Run(Route("submit"), req, Ctx0(req, <<>>, {}))

Reviewed(c, req) == Run(Route("status"), req, Ctx0(req, c.expenses, c.files))

\* One submitted expense, reviewed once or not at all, and two reviews of it
\* arriving together.
InitConc ==
  /\ now = 0
  /\ last = Idle
  /\ \E c \in {Submitted} \cup {Reviewed(Submitted, req) : req \in ConcRequests} :
       /\ expenses = c.expenses
       /\ files = c.files
       /\ \E ra \in ConcRequests, rb \in ConcRequests :
            reviews = [before |-> c.expenses, of |-> <<Arrived(ra), Arrived(rb)>>]

NextConc ==
  \/ \E p \in Procs : ReviewFind(p)
  \/ \E p \in Procs : ReviewAssign(p)
  \/ \E p \in Procs : ReviewSave(p)
  \/ \E p \in Procs : ReviewRespond(p)
  \/ TickConc

SpecConc == InitConc /\ [][NextConc]_vars

\* ------------------------------------------------------------ vocabulary
\* A request was just answered / is answered by this step.
Answering == Idling /\ last'.req.op # "none"
Sent(l, code) == Len(l.resp) = 1 /\ l.resp[1].code = code
Ran(l, mw) == \E k \in 1..Len(l.steps) : l.steps[k].mw = mw
RoleOf(u) == UserDB[u].role
Terminal == {"Approved", "Rejected"}
ReviewFields(e) == <<e.status, e.reviewedBy, e.reviewedDate, e.reviewComments>>

\* ----------------------------------------------------------------- C1
\* C1: once an expense's status is Approved or Rejected, no request ever
\* changes that expense's status to a different value.
C1_TerminalStatusesNeverChange ==
  [][\A i \in 1..Len(expenses) :
       expenses[i].status \in Terminal => expenses'[i].status = expenses[i].status]_vars

Unauthenticated(h) ==
  \/ ~h.present
  \/ h.scheme # "Bearer"
  \/ h.sig # "good"
  \/ h.id \notin UserIds
  \/ ~UserDB[h.id].isActive

\* C3: on every endpoint authentication comes first and yields exactly one
\* outcome, one 401 response or one hand-off; a request that must not
\* authenticate gets 401, and neither the role check, the ownership check nor
\* the handler runs for it, and no state changes.
C3_AuthenticationFirst ==
  [][Answering =>
       LET l == last'
           p == l.steps[1]
       IN /\ Len(l.steps) >= 1
          /\ p.mw = "protect"
          /\ (p.sent = 1 /\ ~p.next) \/ (p.sent = 0 /\ p.next)
          /\ Unauthenticated(l.req.hdr) =>
               /\ Len(l.steps) = 1
               /\ Sent(l, 401)
               /\ ~p.next
               /\ expenses' = expenses /\ files' = files /\ now' = now
          /\ ~Unauthenticated(l.req.hdr) => p.next /\ l.user = l.req.hdr.id]_vars

\* A deactivated Manager asked for a status review and got 401.
C3_Witness ==
  /\ last.req.op = "status"
  /\ last.req.hdr = Bearer("x1")
  /\ Sent(last, 401)
  /\ Len(last.steps) = 1

\* ----------------------------------------------------------------- C4
\* The roles each endpoint admits, as the interface states them.
PermittedRoles(op) ==
  CASE op \in {"submit", "my"} -> {"Employee"}
    [] op \in {"list", "status"} -> {"Manager", "Finance"}
    [] OTHER -> Roles

\* C4: an Expense is created only by a POST /expenses of an Employee; status,
\* reviewedBy, reviewedDate and reviewComments of an existing expense change
\* only by a PUT /expenses/:id/status of a Manager or Finance user; an
\* authenticated request from a role outside the endpoint's set gets 403 and
\* leaves every Expense unchanged.
C4_RoleGating ==
  [][/\ Len(expenses') # Len(expenses) =>
          /\ last'.req.op = "submit"
          /\ last'.user \in UserIds
          /\ RoleOf(last'.user) = "Employee"
     /\ \A i \in 1..Len(expenses) :
          (i <= Len(expenses') /\ ReviewFields(expenses'[i]) # ReviewFields(expenses[i])) =>
             /\ last'.req.op = "status"
             /\ last'.req.id = i
             /\ last'.user \in UserIds
             /\ RoleOf(last'.user) \in {"Manager", "Finance"}
     /\ (Answering /\ ~Unauthenticated(last'.req.hdr)
           /\ RoleOf(last'.req.hdr.id) \notin PermittedRoles(last'.req.op)) =>
          /\ Sent(last', 403)
          /\ expenses' = expenses]_vars

\* A Manager tried to submit an expense and got 403.
C4_Witness ==
  /\ last.req.op = "submit"
  /\ last.user = "m1"
  /\ Sent(last, 403)

\* ----------------------------------------------------------------- C5
\* The six validated fields of a submission, each within its rule.
FieldsValid(b) ==
  LET within(str, max) == str.def /\ str.len >= 1 /\ str.len <= max
  IN /\ within(b.title, 100)
     /\ b.category \in Categories
     /\ b.amount.numeric /\ b.amount.cents >= 1
     /\ within(b.description, 500)
     /\ b.vendor.form # "absent" /\ b.vendor.name.def /\ b.vendor.name.len >= 1
     /\ b.expenseDate.iso

\* C5: a POST /expenses of an Employee that fails validation of a field ends
\* with 400 and leaves the Expense records and the file storage as they were.
C5_InvalidSubmissionLeavesNoTrace ==
  [][(Answering /\ last'.req.op = "submit" /\ ~Unauthenticated(last'.req.hdr)
        /\ RoleOf(last'.req.hdr.id) = "Employee" /\ ~FieldsValid(last'.req.body)) =>
       /\ Sent(last', 400)
       /\ expenses' = expenses
       /\ files' = files]_vars

\* ----------------------------------------------------------------- C6
\* C6: a status review asking for a status outside {Approved, Rejected, Under
\* Review}, Pending and no status included, gets 400 and leaves every expense
\* unchanged, also when it carries review comments.
C6_InvalidStatusRejected ==
  [][(Answering /\ last'.req.op = "status" /\ Ran(last', "validators")
        /\ last'.req.body.status \notin {"Approved", "Rejected", "Under Review"}) =>
       /\ Sent(last', 400)
       /\ expenses' = expenses]_vars

\* A reviewer sent no status, with comments, for an existing expense.
C6_Witness ==
  /\ last.req.op = "status"
  /\ last.req.body.status = Undefined
  /\ Truthy(last.req.body.reviewComments)
  /\ last.req.id \in 1..Len(expenses)
  /\ RoleOf(last.user) = "Finance"
  /\ Sent(last, 400)

\* ----------------------------------------------------------------- C7
\* C7: a status that was once different from Pending is never Pending again,
\* and the status of an existing expense changes only by a successful
\* PUT /expenses/:id/status on that expense.
C7_NeverBackToPending ==
  [][\A i \in 1..Len(expenses) :
       /\ i <= Len(expenses')
       /\ expenses[i].status # "Pending" => expenses'[i].status # "Pending"
       /\ expenses'[i].status # expenses[i].status =>
            /\ last'.req.op = "status"
            /\ last'.req.id = i
            /\ Sent(last', 200)]_vars

\* A reviewer asked for Pending on an expense already reviewed.
C7_Witness ==
  /\ last.req.op = "status"
  /\ last.req.body.status = "Pending"
  /\ Ran(last, "handler")
  /\ last.req.id \in 1..Len(expenses)
  /\ expenses[last.req.id].status \in ReviewStatuses

\* ----------------------------------------------------------------- C8
\* A valid submission: an authenticated Employee, every field within its
\* rule, a vendor that decodes, one file of an accepted type and size.
ValidSubmission(req) ==
  LET b == req.body
      f == req.file
  IN /\ ~Unauthenticated(req.hdr)
     /\ RoleOf(req.hdr.id) = "Employee"
     /\ FieldsValid(b)
     /\ b.currency = Undefined \/ b.currency \in Currencies
     /\ b.vendor.form = "string" =>
          b.vendor.jsonOk /\ b.vendor.parsedName.def /\ b.vendor.parsedName.len >= 1
     /\ f.def /\ f.mimetype \in {"application/pdf", "image/jpeg", "image/png"}
     /\ f.size <= 5 * 1024 * 1024

ReviewedNow(l, i) == l.req.op = "status" /\ l.req.id = i /\ Sent(l, 200)

\* C9 as claimed: an Expense is never removed; submittedBy, submittedDate and
\* the invoice metadata never change; a successful review changes only
\* status, reviewedBy, reviewedDate and reviewComments of its target and
\* nothing else of any expense.
C9_ReviewChangesOnlyReviewFields ==
  [][/\ Len(expenses') >= Len(expenses)
     /\ \A i \in 1..Len(expenses) :
          i <= Len(expenses') =>
            LET old == expenses[i]
                new == expenses'[i]
            IN /\ new.submittedBy = old.submittedBy
               /\ new.submittedDate = old.submittedDate
               /\ new.invoice = old.invoice
               /\ IF Answering /\ ReviewedNow(last', i)
                  THEN new = [old EXCEPT !.status = new.status,
                                         !.reviewedBy = new.reviewedBy,
                                         !.reviewedDate = new.reviewedDate,
                                         !.reviewComments = new.reviewComments]
                  ELSE new = old]_vars

\* C9 amended: as claimed, except that a successful review also moves the
\* updatedAt timestamp the store keeps for the target expense.
C9_ReviewChangesReviewFieldsAndUpdatedAt ==
  [][/\ Len(expenses') >= Len(expenses)
     /\ \A i \in 1..Len(expenses) :
          i <= Len(expenses') =>
            LET old == expenses[i]
                new == expenses'[i]
            IN /\ new.submittedBy = old.submittedBy
               /\ new.submittedDate = old.submittedDate
               /\ new.invoice = old.invoice
               /\ IF Answering /\ ReviewedNow(last', i)
                  THEN new = [old EXCEPT !.status = new.status,
                                         !.reviewedBy = new.reviewedBy,
                                         !.reviewedDate = new.reviewedDate,
                                         !.reviewComments = new.reviewComments,
                                         !.updatedAt = new.updatedAt]
                  ELSE new = old]_vars

\* One of two expenses was reviewed after the millisecond it was created in.
C9_Witness ==
  /\ Len(expenses) = 2
  /\ ReviewedNow(last, 1)
  /\ expenses[1].updatedAt > expenses[1].createdAt
  /\ expenses[2].status = "Pending"

\* ----------------------------------------------------------------- C10
\* A review the interface accepts: a Manager or Finance caller, a status of
\* the permitted set, comments absent or within 500 characters.
AcceptableReview(req) ==
  /\ ~Unauthenticated(req.hdr)
  /\ RoleOf(req.hdr.id) \in {"Manager", "Finance"}
  /\ req.body.status \in {"Approved", "Rejected", "Under Review"}
  /\ req.body.reviewComments.def => req.body.reviewComments.len <= 500

BothReviewed ==
  /\ Len(reviews.of) = 2
  /\ \A p \in Procs : reviews.of[p].pc = "done" /\ Sent(reviews.of[p], 200)

\* The document one review served alone at time t leaves: the requested
\* status, the caller as reviewedBy, t as reviewedDate, and the comments when
\* any were sent.
AfterReview(e, req, t) ==
  LET cm == req.body.reviewComments
      e1 == [e EXCEPT !.status = req.body.status, !.reviewedBy = req.hdr.id,
                      !.reviewedDate = t]
  IN IF cm.def /\ cm.len > 0 THEN [e1 EXCEPT !.reviewComments = [cm EXCEPT !.pad = 0]]
     ELSE e1

Times == 0..MaxClock
SameButUpdatedAt(x, y) == [x EXCEPT !.updatedAt = 0] = [y EXCEPT !.updatedAt = 0]

\* C11: when two status reviews of the same expense have run concurrently,
\* the stored expense is what the two reviews leave when one runs after the
\* other, in one of the two orders (at whatever times; updatedAt aside).
C11_ConcurrentReviewsSerialize ==
  BothReviewed =>
    LET id == reviews.of[1].req.id
        e == reviews.before[id]
    IN \E p \in Procs, q \in Procs, tp \in Times, tq \in Times :
         /\ p # q
         /\ SameButUpdatedAt(expenses[id],
              AfterReview(AfterReview(e, reviews.of[p].req, tp), reviews.of[q].req, tq))

====
